---- MODULE Spec2Model ----
(***************************************************************************)
(* Serial command console of the FIR FPGA control program                  *)
(* (fir_uart_nios/hello_world.c): the interrupt-driven transmit ring, the  *)
(* receive latch, the line assembler and the command parser/dispatcher.    *)
(*                                                                         *)
(* Two specifications share the state:                                     *)
(*   SpecRing  uart_putchar and uart_puts executed statement by statement  *)
(*             by the foreground, with uart_isr running to completion      *)
(*             between any two statements;                                 *)
(*   Spec      the main loop at handler granularity: uart_isr and          *)
(*             process_console_input, each as one step.                    *)
(***************************************************************************)
EXTENDS Integers, Sequences, FiniteSets, TLC

VARIABLES
    \* ---- program state -------------------------------------------------
    tx_size,              \* capacity of the ring (TX_BUFFER_SIZE of the build), never changed
    tx_buffer,            \* volatile char tx_buffer[TX_BUFFER_SIZE]
    tx_head,              \* next write slot
    tx_tail,              \* next read slot
    control,              \* UART control register: the set of enabled interrupt bits
    txdata,               \* UART transmit data register: the last byte written to it
    uart_rx_flag,         \* receive latch: valid flag
    uart_rx_char,         \* receive latch: value
    uart_parity_errors,
    uart_frame_errors,
    uart_overrun_errors,
    cmd_buffer,           \* static char cmd_buffer[32] of process_console_input
    buffer_idx,           \* static int buffer_idx
    regs,                 \* the registers behind the MM bridge, by word index
    delay_value,          \* main's delay_value (the timer interval)
    \* ---- the foreground's position inside uart_puts / uart_putchar ------
    pc,                   \* "main", "puts", "puts_c", or a line of uart_putchar
    ret_to,               \* where the running uart_putchar returns to
    arg_c,                \* uart_putchar's parameter c
    next_head,            \* uart_putchar's local next_head
    control_local,        \* uart_putchar's local control
    ret,                  \* value of the last uart_putchar return (-1: none yet)
    puts_str,             \* uart_puts: the rest of *str
    puts_c,               \* uart_puts: its local c
    \* ---- environment ----------------------------------------------------
    wire,                 \* the bytes written to TXDATA, in order
    typed,                \* what the operator is still going to type
    lines,                \* the lines the operator has submitted, in order
    bus,                  \* the accesses made through the MM bridge, in order
    \* ---- history (observations of the run, never read by the program) ---
    accepted,             \* the bytes for which uart_putchar returned 1
    offered,              \* number of uart_putchar calls made
    head0,                \* tx_head at the entry of the last uart_putchar call
    buf0,                 \* tx_buffer at the entry of the last uart_putchar call
    full_at_check,        \* whether the ring was full when line 194 ran
    streak,               \* enqueues accepted since the ring was last empty,
                          \* -1 once a drain has intervened
    h,                    \* record of what the last process_console_input did
    \* ---- the timer, and the functions run statement by statement ---------
    timer_tick_count,     \* volatile uint32_t timer_tick_count
    loc,                  \* locals of the function the foreground is in
    obs                   \* history: what the interrupts and that function did

ringVars  == <<tx_buffer, tx_head, tx_tail, control>>
latchVars == <<uart_rx_flag, uart_rx_char>>
errVars   == <<uart_parity_errors, uart_frame_errors, uart_overrun_errors>>
cmdVars   == <<cmd_buffer, buffer_idx, regs, delay_value>>
fgVars    == <<pc, ret_to, arg_c, next_head, control_local, ret, puts_str, puts_c>>
histVars  == <<accepted, offered, head0, buf0, full_at_check, streak>>
vars      == <<tx_size, ringVars, txdata, latchVars, errVars, cmdVars, fgVars, wire, typed,
               lines, bus, histVars, h, timer_tick_count, loc, obs>>

\* What the command console and the ring client leave alone.
auxVars   == <<timer_tick_count, loc, obs>>

\* h before process_console_input has consumed anything, and the base of h
\* for a call that did not submit a line.
NoCall ==
    [term |-> FALSE, line |-> <<>>, text |-> <<>>, emitted |-> <<>>,
     queued |-> <<>>, access |-> <<>>, parsed |-> <<>>, pre_regs |-> <<>>,
     pre_delay |-> 0, pre_pending |-> 0, keyed |-> <<>>]

\* The locals before any of these functions has run: c of
\* process_console_input and of uart_putchar_blocking, start_time and
\* timeout_ms of uart_putchar_blocking.
NoLocals == [c |-> "NUL", start_time |-> 0, timeout_ms |-> 0]

\* The history before anything has happened: the number of uart_isr
\* invocations and the status of the last one; the arrivals stored in the
\* latch and the arrivals taken from it (their position in stored); of
\* uart_putchar_blocking the number of calls, the length of accepted at its
\* entry, the result of its last attempt, the elapsed ticks it last computed
\* and what it returned (-1: nothing yet); the number of timer interrupts;
\* of uart_flush the bytes waiting at its entry and whether it has returned.
NoObs ==
    [isr_n |-> 0, isr_status |-> {}, stored |-> <<>>, consumed |-> <<>>,
     calls |-> 0, acc0 |-> 0, last |-> -1, elapsed |-> 0, result |-> -1,
     ticks |-> 0, flush_pending |-> 0, flush_done |-> FALSE]

----------------------------------------------------------------------------
(* Bounds of the model.                                                    *)

\* Slots of the scaled-down transmit ring (SpecRing uses it alone; Spec runs the
\* program with this ring and with the ring of TX_BUFFER_SIZE slots).
MaxRing == 3

\* uart_putchar calls the foreground client of SpecRing may start.
MaxOffered == 5

\* Spec: the operator types on while the ring holds at most this many bytes.
MaxBacklog == 1

----------------------------------------------------------------------------
(* Characters are one-character strings; NUL is the zero byte.             *)

NUL == "NUL"
CR  == "\r"
LF  == "\n"

\* line 79: #define TX_BUFFER_SIZE 512
TX_BUFFER_SIZE == 512

\* Bits of the UART status and control registers.
PE   == "PE"
FE   == "FE"
ROE  == "ROE"
RRDY == "RRDY"
TRDY == "TRDY"

----------------------------------------------------------------------------
(* The transmit ring.                                                      *)

\* A faulty NextHead: the index skips a slot.
NextHead_Skip(head) == (head + 2) % tx_size

\* line 191: next_head = (tx_head + 1) % TX_BUFFER_SIZE
NextHead(head) == (head + 1) % tx_size

\* A faulty RingFull: the full check never fires.
RingFull_Never(nh, tail) == FALSE

\* line 194: if (next_head == tx_tail)
RingFull(nh, tail) == nh = tail

\* line 147: tx_tail = (tx_tail + 1) % TX_BUFFER_SIZE
NextTail(tail) == (tail + 1) % tx_size

\* A faulty TxReady: the ring is not checked for being empty.
TxReady_NoEmptyCheck(status, head, tail) == TRDY \in status

\* line 143: (status & TRDY) && (tx_tail != tx_head)
TxReady(status, head, tail) == TRDY \in status /\ tail # head

\* Number of bytes waiting in the ring.
Pending == (tx_head - tx_tail + tx_size) % tx_size

\* The bytes waiting in the ring, oldest first.
RingContent == [i \in 1..Pending |-> tx_buffer[(tx_tail + i - 1) % tx_size]]

\* A faulty ArmTx: the register is written with the transmit enable alone.
ArmTx_Only(ctl) == {TRDY}

\* A faulty ArmTx: the register is written back as it was read.
ArmTx_Never(ctl) == ctl

\* line 206: control |= ALTERA_AVALON_UART_CONTROL_TRDY_MSK
ArmTx(ctl) == ctl \cup {TRDY}

----------------------------------------------------------------------------
(* uart_isr, lines 100-160: one invocation, run to completion.  status is   *)
(* the value read from the status register, rxdata the receive register.   *)

\* The UART raises its interrupt when an enabled status bit is set.
IrqPending(status) == status \cap control # {}

\* A faulty Counted: the three tests are chained with else, so that only the
\* first flag found set is counted.
Counted_FirstOnly(n, flag, status) ==
    IF flag \in status /\ (status \cap {PE, FE, ROE}) \subseteq {flag, ROE} /\
       (flag = ROE => status \cap {PE, FE} = {})
      THEN n + 1 ELSE n

\* lines 110-130: if (status & flag) counter++, for each of the three flags
Counted(n, flag, status) == IF flag \in status THEN n + 1 ELSE n

uart_isr(status, rxdata) ==
    /\ uart_parity_errors'  = Counted(uart_parity_errors, PE, status)
    /\ uart_frame_errors'   = Counted(uart_frame_errors, FE, status)
    /\ uart_overrun_errors' = Counted(uart_overrun_errors, ROE, status)
    /\ IF RRDY \in status
          THEN uart_rx_char' = rxdata /\ uart_rx_flag' = 1
          ELSE UNCHANGED latchVars
    /\ IF TxReady(status, tx_head, tx_tail)
          THEN /\ txdata' = tx_buffer[tx_tail]
               /\ tx_tail' = NextTail(tx_tail)
               /\ control' = IF tx_tail' = tx_head THEN control \ {TRDY} ELSE control
          ELSE UNCHANGED <<txdata, tx_tail, control>>
    /\ UNCHANGED <<tx_size, tx_buffer, tx_head>>

----------------------------------------------------------------------------
(* 32-bit integers.  A C int is kept as its value in [INT_MIN, INT_MAX];    *)
(* arithmetic that can leave that range works on 16-bit halves of the bit  *)
(* pattern.  A bridge word is the pair <<high half, low half>>.             *)

INT_MAX == 2147483647
INT_MIN == -2147483647 - 1

\* The 16-bit halves of the two's-complement bit pattern of v.
Hi16(v) == (v \div 65536) % 65536
Lo16(v) == v % 65536

\* The int whose bit pattern has the halves hi and lo.
FromHalves(hi, lo) ==
    IF hi >= 32768 THEN (hi - 65536) * 65536 + lo ELSE hi * 65536 + lo

\* lines 364, 403: value * 10 + digit as the 32-bit multiply-add computes it.
MulAdd10(v, d) ==
    LET lo == Lo16(v) * 10 + d
        hi == (Hi16(v) * 10 + lo \div 65536) % 65536
    IN  FromHalves(hi, lo % 65536)

\* lines 364, 403: whether value * 10 + digit leaves the range of int
\* (signed overflow: undefined behaviour), for value >= 0; a negative value
\* only arises after an overflow.
Overflows(v, d) == v > (INT_MAX - d) \div 10

\* The value an int expression is left with after a signed overflow: the
\* wrapped result of the 32-bit multiply-add, or one of the extremes.
UBChoice == {"wrap", "max", "min"}

Undefined(wrapped, ub) ==
    CASE ub = "wrap" -> wrapped
      [] ub = "max"  -> INT_MAX
      [] ub = "min"  -> INT_MIN

\* line 411: value = -value in 32 bits.
Neg32(v) == IF v = INT_MIN THEN INT_MIN ELSE -v

\* line 484: (uint32_t)value_signed, a sign-extended bridge word.
SignExtend(v) == <<IF v < 0 THEN 65535 ELSE 0, v % 65536>>

\* line 524: (int)(int16_t)read_value, the low half read as signed.
Low16Signed(w) == IF w[2] >= 32768 THEN w[2] - 65536 ELSE w[2]

----------------------------------------------------------------------------
(* Characters and C strings.                                               *)

\* Digit[d + 1] is '0' + d.
Digit == <<"0", "1", "2", "3", "4", "5", "6", "7", "8", "9">>

isdigit(c) == \E d \in 0..9 : Digit[d + 1] = c

\* c - '0' for a digit c.
DigitVal(c) == CHOOSE d \in 0..9 : Digit[d + 1] = c

\* line 431: static char cmd_buffer[32]
CMD_BUFFER_SIZE == 32

\* The C string that starts at cmd_buffer[i]: the characters up to the first NUL.
RECURSIVE CStr(_, _)
CStr(buf, i) ==
    IF i >= CMD_BUFFER_SIZE \/ buf[i] = NUL THEN <<>>
    ELSE <<buf[i]>> \o CStr(buf, i + 1)

----------------------------------------------------------------------------
(* parse_int, lines 351-375, and parse_signed_int, lines 378-421.          *)

\* lines 358-359, 386-387: skip spaces and tabs; the index of the first other character.
RECURSIVE SkipBlanks(_, _)
SkipBlanks(s, i) ==
    IF i <= Len(s) /\ s[i] \in {" ", "\t"} THEN SkipBlanks(s, i + 1) ELSE i

\* lines 362-367, 401-406: accumulate the decimal digits from s[i] on.
RECURSIVE ScanDigits(_, _, _)
ScanDigits(s, i, acc) ==
    IF i <= Len(s) /\ isdigit(s[i])
      THEN IF Overflows(acc.value, DigitVal(s[i]))
             THEN ScanDigits(s, i + 1,
                             [value |-> MulAdd10(acc.value, DigitVal(s[i])),
                              found |-> TRUE, ovf |-> TRUE])
             ELSE ScanDigits(s, i + 1,
                             [value |-> MulAdd10(acc.value, DigitVal(s[i])),
                              found |-> TRUE, ovf |-> acc.ovf])
      ELSE acc

\* A faulty NoDigits: digit_found starts as 1.
NoDigits_Found == [value |-> 0, found |-> TRUE, ovf |-> FALSE]

\* lines 353-355, 380-382: value = 0, digit_found = 0
NoDigits == [value |-> 0, found |-> FALSE, ovf |-> FALSE]

\* parse_int(str, &result): ok is its return value, value what it stored.
parse_int(s, ub) ==
    LET acc == ScanDigits(s, SkipBlanks(s, 1), NoDigits)
    IN  [ok    |-> acc.found,
         value |-> IF acc.ovf THEN Undefined(acc.value, ub) ELSE acc.value,
         ovf   |-> acc.ovf]

\* line 414: value >= -32768 && value <= 32767
InInt16(v) == v >= -32768 /\ v <= 32767

\* parse_signed_int(str, &result)
parse_signed_int(s, ub) ==
    LET i0  == SkipBlanks(s, 1)
        neg == i0 <= Len(s) /\ s[i0] = "-"
        i1  == IF i0 <= Len(s) /\ s[i0] \in {"-", "+"} THEN i0 + 1 ELSE i0
        acc == ScanDigits(s, i1, NoDigits)
        v0  == IF acc.ovf THEN Undefined(acc.value, ub) ELSE acc.value
        v1  == IF neg THEN Neg32(v0) ELSE v0
    IN  [ok    |-> acc.found /\ InInt16(v1),
         value |-> v1,
         ovf   |-> acc.ovf]

----------------------------------------------------------------------------
(* The output functions as single steps (process_console_input calls them  *)
(* from the foreground; in Spec no interrupt is taken inside the handler).  *)
(* o is the transmit side as the handler sees it, with what it offered to  *)
(* uart_putchar (emitted), what the ring accepted (queued) and the text    *)
(* handed to uart_puts, uart_put_int and uart_putchar by the handler.      *)

\* uart_putchar(c), lines 185-210
uart_putchar(o, c) ==
    LET nh == NextHead(o.head)
    IN  IF RingFull(nh, tx_tail)
          THEN [o EXCEPT !.emitted = Append(@, c)]
          ELSE [o EXCEPT !.buf = [@ EXCEPT ![o.head] = c],
                         !.head = nh,
                         !.control = ArmTx(@),
                         !.emitted = Append(@, c),
                         !.queued = Append(@, c)]

\* The two halves of a sequence of two or more elements.  (Here and below a
\* parameter is taken as a value, t \in {s}, before it is used more than
\* once, which keeps the evaluation of nested calls linear.)
Left(s)  == CHOOSE r \in {SubSeq(t, 1, Len(t) \div 2) : t \in {s}} : TRUE
Right(s) == CHOOSE r \in {SubSeq(t, (Len(t) \div 2) + 1, Len(t)) : t \in {s}} : TRUE

\* uart_putchar called for each element of s in turn: for the first half of
\* s, then from the result for the second half (halving keeps the
\* evaluation shallow).
RECURSIVE PutEach(_, _)
PutEach(o, s) ==
    CHOOSE r \in {IF Len(t) = 0 THEN p
                  ELSE IF Len(t) = 1 THEN uart_putchar(p, t[1])
                  ELSE PutEach(PutEach(p, Left(t)), Right(t)) : p \in {o}, t \in {s}} : TRUE

\* lines 243-249: the arguments of the uart_putchar calls that uart_puts(s)
\* makes, in order: '\r' before every '\n'.
RECURSIVE Expand(_)
Expand(s) ==
    CHOOSE r \in {IF Len(t) = 0 THEN <<>>
                  ELSE IF Len(t) = 1 THEN (IF t[1] = LF THEN <<CR, LF>> ELSE t)
                  ELSE Expand(Left(t)) \o Expand(Right(t)) : t \in {s}} : TRUE

\* uart_puts(str), lines 239-251; the return values of uart_putchar are ignored.
uart_puts(o, s) == PutEach([o EXCEPT !.text = @ \o s], Expand(s))

\* lines 331-335: the digits of num > 0, least significant first
RECURSIVE DigitsRev(_)
DigitsRev(num) ==
    IF num > 0 THEN <<Digit[(num % 10) + 1]>> \o DigitsRev(num \div 10) ELSE <<>>

Reverse(s) == [i \in 1..Len(s) |-> s[Len(s) + 1 - i]]

\* The characters uart_put_int(num) passes to uart_putchar, lines 311-348.
PutIntChars(num) ==
    LET n == IF num < 0 THEN -num ELSE num
    IN  IF n = 0 THEN <<"0">>
        ELSE (IF num < 0 THEN <<"-">> ELSE <<>>) \o Reverse(DigitsRev(n))

\* uart_put_int(num), lines 311-348
uart_put_int(o, num) ==
    PutEach([o EXCEPT !.text = @ \o PutIntChars(num)], PutIntChars(num))

\* One output call of the dispatcher: a text for uart_puts or a number for uart_put_int.
PutS(s) == [k |-> "s", s |-> s, n |-> 0]
PutI(n) == [k |-> "i", s |-> <<>>, n |-> n]

RECURSIVE Emit(_, _)
Emit(o, calls) ==
    CHOOSE r \in {IF cs = <<>> THEN p
                  ELSE Emit(IF Head(cs).k = "s" THEN uart_puts(p, Head(cs).s)
                                                ELSE uart_put_int(p, Head(cs).n),
                            Tail(cs)) : p \in {o}, cs \in {calls}} : TRUE
----------------------------------------------------------------------------
(* The texts process_console_input prints, as character sequences.         *)

\* line 485: "Set reg["
MSG_SET ==
    <<"S", "e", "t", " ", "r", "e", "g", "[">>

\* line 520: "Read reg["
MSG_READ ==
    <<"R", "e", "a", "d", " ", "r", "e", "g", "[">>

\* line 487: "] = "
MSG_EQ ==
    <<"]", " ", "=", " ">>

\* line 489: "\n"
MSG_NL ==
    <<LF>>

\* line 493: "Invalid value (must be signed 16-bit: -32768 to 32767).\n"
MSG_INVALID_VALUE ==
    <<"I", "n", "v", "a", "l", "i", "d", " ", "v", "a", "l", "u", "e", " ",
      "(", "m", "u", "s", "t", " ", "b", "e", " ", "s", "i", "g", "n", "e",
      "d", " ", "1", "6", "-", "b", "i", "t", ":", " ", "-", "3", "2", "7",
      "6", "8", " ", "t", "o", " ", "3", "2", "7", "6", "7", ")", ".", LF>>

\* line 498: "Address out of range (0-64).\n"
MSG_ADDR_RANGE ==
    <<"A", "d", "d", "r", "e", "s", "s", " ", "o", "u", "t", " ", "o", "f",
      " ", "r", "a", "n", "g", "e", " ", "(", "0", "-", "6", "4", ")", ".",
      LF>>

\* line 503: "Invalid address.\n"
MSG_INVALID_ADDR ==
    <<"I", "n", "v", "a", "l", "i", "d", " ", "a", "d", "d", "r", "e", "s",
      "s", ".", LF>>

\* line 508: "Invalid format. Use S<addr>$<value>\n"
MSG_FORMAT ==
    <<"I", "n", "v", "a", "l", "i", "d", " ", "f", "o", "r", "m", "a", "t",
      ".", " ", "U", "s", "e", " ", "S", "<", "a", "d", "d", "r", ">", "$",
      "<", "v", "a", "l", "u", "e", ">", LF>>

\* line 545: "Timer interval set to: "
MSG_TIMER ==
    <<"T", "i", "m", "e", "r", " ", "i", "n", "t", "e", "r", "v", "a", "l",
      " ", "s", "e", "t", " ", "t", "o", ":", " ">>

\* line 547: " ms\n"
MSG_MS ==
    <<" ", "m", "s", LF>>

\* line 551: "Value out of range (100-5000).\n"
MSG_VALUE_RANGE ==
    <<"V", "a", "l", "u", "e", " ", "o", "u", "t", " ", "o", "f", " ", "r",
      "a", "n", "g", "e", " ", "(", "1", "0", "0", "-", "5", "0", "0", "0",
      ")", ".", LF>>

\* line 556: "Invalid integer value.\n"
MSG_INVALID_INT ==
    <<"I", "n", "v", "a", "l", "i", "d", " ", "i", "n", "t", "e", "g", "e",
      "r", " ", "v", "a", "l", "u", "e", ".", LF>>

\* line 561: "Unknown command. Use S<addr>$<value>, R<addr>, or T<interval>\n"
MSG_UNKNOWN ==
    <<"U", "n", "k", "n", "o", "w", "n", " ", "c", "o", "m", "m", "a", "n",
      "d", ".", " ", "U", "s", "e", " ", "S", "<", "a", "d", "d", "r", ">",
      "$", "<", "v", "a", "l", "u", "e", ">", ",", " ", "R", "<", "a", "d",
      "d", "r", ">", ",", " ", "o", "r", " ", "T", "<", "i", "n", "t", "e",
      "r", "v", "a", "l", ">", LF>>
----------------------------------------------------------------------------
(* The registers behind the MM bridge: word w is at byte offset 4 * w.      *)

\* lines 51-69: const int16_t fir_coefficients[64]; fir_coefficients[i] is FirCoefficients[i + 1]
FirCoefficients ==
    <<0, 0, 0, 1, 5, 12, 22, 37, 55, 78, 105, 139, 178, 224, 276, 334,
      398, 467, 541, 618, 698, 779, 859, 938, 1013, 1083, 1147, 1202, 1248,
      1284, 1308, 1320, 1320, 1308, 1284, 1248, 1202, 1147, 1083, 1013, 938,
      859, 779, 698, 618, 541, 467, 398, 334, 276, 224, 178, 139, 105, 78,
      55, 37, 22, 12, 5, 1, 0, 0, 0>>

\* IOWR_32DIRECT(MM_BRIDGE_0_BASE, offset, data), lines 484 and 646
IOWR_32DIRECT(rg, offset, data) == [rg EXCEPT ![offset \div 4] = data]

\* IORD_32DIRECT(MM_BRIDGE_0_BASE, offset), line 519
IORD_32DIRECT(rg, offset) == rg[offset \div 4]

\* lines 644-647: the registers once main has preloaded words 0..63; word 64
\* is not written and keeps what the hardware holds, w64.
Preloaded(w64) ==
    [w \in 0..64 |-> IF w < 64 THEN SignExtend(FirCoefficients[w + 1]) ELSE w64]

\* What word 64 holds at start-up: not the program's choice; here a word with
\* both halves set and a negative low half.
Reg64Reset == <<4660, 43981>>

----------------------------------------------------------------------------
(* The command dispatcher, lines 456-563 of process_console_input.         *)

\* A faulty IsSet: only the capital letter is recognised.
IsSet_UpperOnly(c) == c = "S"

\* line 459: cmd_buffer[0] == 'S' || cmd_buffer[0] == 's'
IsSet(c) == c = "S" \/ c = "s"

\* line 512
IsRead(c) == c = "R" \/ c = "r"

\* line 538
IsTimer(c) == c = "T" \/ c = "t"

\* lines 462-470: the index of the first '$' in cmd_buffer[1 .. idx-1], -1 for NULL
DollarPos(buf, idx) ==
    IF \E i \in 1..(idx - 1) : buf[i] = "$"
      THEN CHOOSE i \in 1..(idx - 1) :
               buf[i] = "$" /\ \A j \in 1..(i - 1) : buf[j] # "$"
      ELSE -1

\* lines 478, 516: addr >= 0 && addr <= 64
AddrInRange(a) == a >= 0 /\ a <= 64

\* line 542: value <= 5000 && value >= 100
IntervalInRange(v) == v <= 5000 /\ v >= 100

\* A faulty ReadOffset: the address is not scaled to a byte offset.
ReadOffset_Unscaled(addr) == addr

\* line 484: the byte offset of the Set path
SetOffset(addr) == addr * 4

\* line 519: the byte offset of the Read path
ReadOffset(addr) == addr * 4

\* What the dispatcher did: the line buffer, registers and interval it leaves,
\* its output calls in order, its bridge accesses in order and what its calls
\* of parse_int and parse_signed_int returned.
Done(buf, rg, dv, out, access, parsed) ==
    [buf |-> buf, regs |-> rg, delay |-> dv, out |-> out, access |-> access,
     parsed |-> parsed]

\* lines 459-510: S<addr>$<value>
SetCommand(buf, idx, rg, dv, ubA, ubV) ==
    LET dpos == DollarPos(buf, idx)
        buf1 == [buf EXCEPT ![dpos] = NUL]
        pa   == parse_int(CStr(buf1, 1), ubA)
        pv   == parse_signed_int(CStr(buf1, dpos + 1), ubV)
    IN  IF dpos = -1
          THEN Done(buf, rg, dv, <<PutS(MSG_FORMAT)>>, <<>>, <<>>)
        ELSE IF ~pa.ok
          THEN Done(buf1, rg, dv, <<PutS(MSG_INVALID_ADDR)>>, <<>>, <<pa>>)
        ELSE IF ~AddrInRange(pa.value)
          THEN Done(buf1, rg, dv, <<PutS(MSG_ADDR_RANGE)>>, <<>>, <<pa>>)
        ELSE IF ~pv.ok
          THEN Done(buf1, rg, dv, <<PutS(MSG_INVALID_VALUE)>>, <<>>, <<pa, pv>>)
        ELSE Done(buf1,
                  IOWR_32DIRECT(rg, SetOffset(pa.value), SignExtend(pv.value)),
                  dv,
                  <<PutS(MSG_SET), PutI(pa.value), PutS(MSG_EQ), PutI(pv.value),
                    PutS(MSG_NL)>>,
                  <<[op |-> "write", offset |-> SetOffset(pa.value),
                     data |-> SignExtend(pv.value)]>>,
                  <<pa, pv>>)

\* lines 512-536: R<addr>
ReadCommand(buf, idx, rg, dv, ubA) ==
    LET pa == parse_int(CStr(buf, 1), ubA)
    IN  IF ~pa.ok
          THEN Done(buf, rg, dv, <<PutS(MSG_INVALID_ADDR)>>, <<>>, <<pa>>)
        ELSE IF ~AddrInRange(pa.value)
          THEN Done(buf, rg, dv, <<PutS(MSG_ADDR_RANGE)>>, <<>>, <<pa>>)
        ELSE Done(buf, rg, dv,
                  <<PutS(MSG_READ), PutI(pa.value), PutS(MSG_EQ),
                    PutI(Low16Signed(IORD_32DIRECT(rg, ReadOffset(pa.value)))),
                    PutS(MSG_NL)>>,
                  <<[op |-> "read", offset |-> ReadOffset(pa.value),
                     data |-> IORD_32DIRECT(rg, ReadOffset(pa.value))]>>,
                  <<pa>>)

\* lines 538-558: T<interval>
TimerCommand(buf, idx, rg, dv, ubA) ==
    LET pv == parse_int(CStr(buf, 1), ubA)
    IN  IF ~pv.ok
          THEN Done(buf, rg, dv, <<PutS(MSG_INVALID_INT)>>, <<>>, <<pv>>)
        ELSE IF ~IntervalInRange(pv.value)
          THEN Done(buf, rg, dv, <<PutS(MSG_VALUE_RANGE)>>, <<>>, <<pv>>)
        ELSE Done(buf, rg, pv.value,
                  <<PutS(MSG_TIMER), PutI(pv.value), PutS(MSG_MS)>>, <<>>, <<pv>>)

\* lines 456-563: the command in cmd_buffer[0 .. idx-1], idx > 0, cmd_buffer[idx] = NUL
Command(buf, idx, rg, dv, ubA, ubV) ==
    IF IsSet(buf[0]) THEN SetCommand(buf, idx, rg, dv, ubA, ubV)
    ELSE IF IsRead(buf[0]) THEN ReadCommand(buf, idx, rg, dv, ubA)
    ELSE IF IsTimer(buf[0]) THEN TimerCommand(buf, idx, rg, dv, ubA)
    ELSE Done(buf, rg, dv, <<PutS(MSG_UNKNOWN)>>, <<>>, <<>>)

----------------------------------------------------------------------------
(* process_console_input, lines 429-576, as one step.                      *)

\* The transmit side at the entry of the handler.
TxNow ==
    [buf |-> tx_buffer, head |-> tx_head, control |-> control,
     emitted |-> <<>>, queued |-> <<>>, text |-> <<>>]

\* line 448: c == '\r' || c == '\n'
IsTerminator(c) == c = CR \/ c = LF

\* A faulty LinePresent: a line of one character is not dispatched.
LinePresent_TwoOrMore(idx) == idx > 1

\* line 456: buffer_idx > 0
LinePresent(idx) == idx > 0

\* A faulty IndexAfterLine: the index is left where the line ended.
IndexAfterLine_Kept == buffer_idx

\* line 566: buffer_idx = 0, on every path through lines 448-565
IndexAfterLine == 0

\* A faulty LineHasRoom: the last slot of the buffer is given to a character
\* as well, so that no slot is left for the terminating NUL.
LineHasRoom_OneMore(idx) == idx < CMD_BUFFER_SIZE

\* line 569: buffer_idx < sizeof(cmd_buffer) - 1
LineHasRoom(idx) == idx < CMD_BUFFER_SIZE - 1

\* lines 448-567: the terminator branch
Terminator(ubA, ubV) ==
    LET o1   == uart_puts(TxNow, <<LF>>)
        buf1 == [cmd_buffer EXCEPT ![buffer_idx] = NUL]
        d    == IF LinePresent(buffer_idx)
                  THEN Command(buf1, buffer_idx, regs, delay_value, ubA, ubV)
                  ELSE Done(buf1, regs, delay_value, <<>>, <<>>, <<>>)
        o2   == Emit(o1, d.out)
    IN  /\ cmd_buffer' = d.buf
        /\ buffer_idx' = IndexAfterLine
        /\ regs' = d.regs
        /\ delay_value' = d.delay
        /\ tx_buffer' = o2.buf
        /\ tx_head' = o2.head
        /\ control' = o2.control
        /\ h' = [term |-> TRUE, line |-> CStr(buf1, 0), text |-> o2.text,
                 emitted |-> o2.emitted, queued |-> o2.queued,
                 access |-> d.access, parsed |-> d.parsed,
                 pre_regs |-> regs, pre_delay |-> delay_value,
                 pre_pending |-> Pending,
                 keyed |-> IF h.term THEN <<>> ELSE h.keyed]
        /\ lines' = Append(lines, CStr(buf1, 0))
        /\ bus' = bus \o d.access

\* lines 569-574: a character of the line
Collect(c) ==
    LET o1 == uart_putchar(TxNow, c)
        k  == (IF h.term THEN <<>> ELSE h.keyed) \o <<c>>
    IN  /\ IF LineHasRoom(buffer_idx)
             THEN /\ cmd_buffer' = [cmd_buffer EXCEPT ![buffer_idx] = c]
                  /\ buffer_idx' = buffer_idx + 1
                  /\ tx_buffer' = o1.buf
                  /\ tx_head' = o1.head
                  /\ control' = o1.control
                  /\ h' = [NoCall EXCEPT !.text = <<c>>, !.emitted = o1.emitted,
                                         !.queued = o1.queued, !.pre_pending = Pending,
                                         !.keyed = k]
             ELSE /\ UNCHANGED <<cmd_buffer, buffer_idx, tx_buffer, tx_head, control>>
                  /\ h' = [NoCall EXCEPT !.pre_pending = Pending, !.keyed = k]
        /\ UNCHANGED <<regs, delay_value, lines, bus>>

\* process_console_input(&delay_value); ubA and ubV are what an overflowing
\* address (or interval) and an overflowing value are left with.
process_console_input(ubA, ubV) ==
    IF uart_rx_flag # 0
      THEN /\ uart_rx_flag' = 0
           /\ IF IsTerminator(uart_rx_char) THEN Terminator(ubA, ubV)
                                            ELSE Collect(uart_rx_char)
           /\ UNCHANGED <<tx_size, tx_tail, txdata, uart_rx_char, errVars, fgVars, wire,
                          typed, histVars, auxVars>>
      ELSE UNCHANGED vars
----------------------------------------------------------------------------
(* uart_putchar, lines 185-210, statement by statement.                    *)

\* What a foreground step of SpecRing leaves alone.
FgFrame == UNCHANGED <<tx_size, txdata, latchVars, errVars, cmdVars, wire, typed, lines, bus,
                       h, auxVars>>

\* Entry of uart_putchar(c), to return to position back of the caller.
PutcharEnter(c, back) ==
    /\ arg_c' = c
    /\ ret_to' = back
    /\ pc' = "L191"
    /\ ret' = -1
    /\ offered' = offered + 1
    /\ head0' = tx_head
    /\ buf0' = tx_buffer
    /\ UNCHANGED <<full_at_check, accepted, streak>>

L191 ==
    /\ pc = "L191"
    /\ next_head' = NextHead(tx_head)
    /\ pc' = "L194"
    /\ UNCHANGED <<ringVars, ret_to, arg_c, control_local, ret, puts_str, puts_c, histVars>>
    /\ FgFrame

L194 ==
    /\ pc = "L194"
    /\ full_at_check' = (Pending = tx_size - 1)
    /\ IF RingFull(next_head, tx_tail)
          THEN ret' = 0 /\ pc' = ret_to
          ELSE ret' = ret /\ pc' = "L201"
    /\ UNCHANGED <<ringVars, ret_to, arg_c, next_head, control_local, puts_str, puts_c,
                   accepted, offered, head0, buf0, streak>>
    /\ FgFrame

L201 ==
    /\ pc = "L201"
    /\ tx_buffer' = [tx_buffer EXCEPT ![tx_head] = arg_c]
    /\ pc' = "L202"
    /\ UNCHANGED <<tx_head, tx_tail, control, ret_to, arg_c, next_head, control_local,
                   ret, puts_str, puts_c, histVars>>
    /\ FgFrame

L202 ==
    /\ pc = "L202"
    /\ tx_head' = next_head
    /\ streak' = IF streak >= 0 THEN streak + 1 ELSE streak
    /\ pc' = "L205"
    /\ UNCHANGED <<tx_buffer, tx_tail, control, ret_to, arg_c, next_head, control_local,
                   ret, puts_str, puts_c, accepted, offered, head0, buf0, full_at_check>>
    /\ FgFrame

L205 ==
    /\ pc = "L205"
    /\ control_local' = control
    /\ pc' = "L207"
    /\ UNCHANGED <<ringVars, ret_to, arg_c, next_head, ret, puts_str, puts_c, histVars>>
    /\ FgFrame

\* lines 206-209: control |= TRDY; write it back; return 1
L207 ==
    /\ pc = "L207"
    /\ control' = ArmTx(control_local)
    /\ ret' = 1
    /\ accepted' = Append(accepted, arg_c)
    /\ pc' = ret_to
    /\ UNCHANGED <<tx_buffer, tx_head, tx_tail, ret_to, arg_c, next_head, control_local,
                   puts_str, puts_c, offered, head0, buf0, full_at_check, streak>>
    /\ FgFrame

----------------------------------------------------------------------------
(* uart_puts, lines 239-251, around the uart_putchar calls.                *)

\* lines 241-249: while (*str) { c = *str++; if (c == '\n') uart_putchar('\r'); ...
PutsLoop ==
    /\ pc = "puts"
    /\ IF puts_str = <<>>
          THEN /\ pc' = "main"
               /\ UNCHANGED <<ret_to, arg_c, ret, puts_str, puts_c, histVars>>
          ELSE /\ puts_c' = Head(puts_str)
               /\ puts_str' = Tail(puts_str)
               /\ IF Head(puts_str) = LF
                     THEN PutcharEnter(CR, "puts_c")
                     ELSE PutcharEnter(Head(puts_str), "puts")
    /\ UNCHANGED <<ringVars, next_head, control_local>>
    /\ FgFrame

\* line 249: uart_putchar(c), after the '\r' of a '\n'
PutsChar ==
    /\ pc = "puts_c"
    /\ PutcharEnter(puts_c, "puts")
    /\ UNCHANGED <<ringVars, next_head, control_local, puts_str, puts_c>>
    /\ FgFrame

----------------------------------------------------------------------------
(* SpecRing: a foreground client that calls uart_putchar and uart_puts,    *)
(* preempted by uart_isr between any two statements.                       *)

RingBytes   == {"a", "b"}
PutsStrings == {<<LF>>, <<"a", LF>>}
RingStatus  == {{TRDY}, {RRDY}, {RRDY, TRDY}}

\* The foreground calls uart_putchar(c) (as line 572 does).
ClientPutchar ==
    /\ pc = "main"
    /\ offered < MaxOffered
    /\ \E c \in RingBytes : PutcharEnter(c, "main")
    /\ UNCHANGED <<ringVars, next_head, control_local, puts_str, puts_c>>
    /\ FgFrame

\* The foreground calls uart_puts(s).
ClientPuts ==
    /\ pc = "main"
    /\ offered < MaxOffered
    /\ \E s \in PutsStrings : puts_str' = s
    /\ pc' = "puts"
    /\ UNCHANGED <<ringVars, ret_to, arg_c, next_head, control_local, ret, puts_c, histVars>>
    /\ FgFrame

\* The UART interrupt preempts the foreground: uart_isr runs to completion.
\* wire and streak record what it transmitted.
Interrupt ==
    /\ \E status \in RingStatus : IrqPending(status) /\ uart_isr(status, "x")
    /\ wire' = IF tx_tail' # tx_tail THEN Append(wire, txdata') ELSE wire
    /\ streak' = IF tx_tail' = tx_tail THEN streak
                 ELSE IF tx_tail' = tx_head THEN 0 ELSE -1
    /\ UNCHANGED <<cmdVars, fgVars, typed, lines, bus, h, accepted, offered, head0, buf0,
                   full_at_check, auxVars>>

\* The state when main has initialised the UART, preloaded the registers
\* and sent its banner (lines 578-660), with a ring of N slots, w64 in the
\* register main does not preload and script still to be typed. The tick
\* count is the one variable it leaves open: the timer runs from line 617 on.
Started(N, w64, script) ==
    /\ tx_size = N
    /\ tx_buffer = [i \in 0..(N - 1) |-> NUL]
    /\ tx_head = 0
    /\ tx_tail = 0
    /\ control = {RRDY}
    /\ txdata = NUL
    /\ uart_rx_flag = 0
    /\ uart_rx_char = NUL
    /\ uart_parity_errors = 0
    /\ uart_frame_errors = 0
    /\ uart_overrun_errors = 0
    /\ cmd_buffer = [i \in 0..(CMD_BUFFER_SIZE - 1) |-> NUL]
    /\ buffer_idx = 0
    /\ regs = Preloaded(w64)
    /\ delay_value = 1000
    /\ pc = "main"
    /\ ret_to = "main"
    /\ arg_c = NUL
    /\ next_head = 0
    /\ control_local = {}
    /\ ret = -1
    /\ puts_str = <<>>
    /\ puts_c = NUL
    /\ wire = <<>>
    /\ typed = script
    /\ lines = <<>>
    /\ bus = <<>>
    /\ accepted = <<>>
    /\ offered = 0
    /\ head0 = 0
    /\ buf0 = tx_buffer
    /\ full_at_check = FALSE
    /\ streak = 0
    /\ h = NoCall
    /\ loc = NoLocals
    /\ obs = NoObs

InitRing == Started(MaxRing, Reg64Reset, <<>>) /\ timer_tick_count = 0

NextRing ==
    \/ ClientPutchar
    \/ ClientPuts
    \/ PutsLoop
    \/ PutsChar
    \/ L191
    \/ L194
    \/ L201
    \/ L202
    \/ L205
    \/ L207
    \/ Interrupt

SpecRing == InitRing /\ [][NextRing]_vars

----------------------------------------------------------------------------
(* What the operator types: one script per behaviour.                      *)

\* lines that are no S, R or T command
OtherLines ==
    {
     <<>>,
     <<"X", "h", "e", "l", "l", "o">>,
     <<"x">>,
     <<"1">>,
     <<"$">>,
     <<" ", "S", "1", "$", "2">>,
     <<"?">>
    }

\* Set lines, well formed and not
SetLines ==
    {
     <<"S", "1", "$", "2">>,
     <<"s", "1", "$", "2">>,
     <<"S", "0", "$", "0">>,
     <<"S", "6", "4", "$", "-", "3", "2", "7", "6", "8">>,
     <<"S", "6", "4", "$", "3", "2", "7", "6", "7">>,
     <<"S", "5", "$", "+", "7">>,
     <<"S", " ", "5", "$", " ", "7">>,
     <<"S", "7", "0", "$", "1">>,
     <<"S", "6", "5", "$", "0">>,
     <<"S", "$", "5">>,
     <<"S", "-", "1", "$", "5">>,
     <<"S", "x", "$", "5">>,
     <<"S", "1">>,
     <<"S">>,
     <<"S", "1", "$">>,
     <<"S", "1", "$", "x">>,
     <<"S", "1", "$", "-">>,
     <<"S", "1", "$", "3", "2", "7", "6", "8">>,
     <<"S", "1", "$", "-", "3", "2", "7", "6", "9">>,
     <<"S", "1", "$", "9", "9", "9", "9", "9">>,
     <<"S", "1", "$", "2", "$", "3">>,
     <<"S", "1", "x", "$", "5">>,
     <<"S", "1", "$", "2", "x">>
    }

\* Read lines, well formed and not
ReadLines ==
    {
     <<"R", "0">>,
     <<"r", "0">>,
     <<"R", "6", "4">>,
     <<"R", "6", "5">>,
     <<"R", "7", "0">>,
     <<"R", "1", "0", "0">>,
     <<"R">>,
     <<"R", "-", "1">>,
     <<"R", "x">>,
     <<"R", " ", "7">>,
     <<"R", "7", "x">>
    }

\* Timer lines, well formed and not
TimerLines ==
    {
     <<"T", "1", "0", "0">>,
     <<"T", "5", "0", "0", "0">>,
     <<"t", "2", "5", "0">>,
     <<"T", "9", "9">>,
     <<"T", "5", "0", "0", "1">>,
     <<"T", "0">>,
     <<"T", "a", "b", "c">>,
     <<"T">>,
     <<"T", "-", "1", "0", "0">>,
     <<"T", "1", "0", "0", "0", "x">>
    }

\* digit strings whose value does not fit in 32 bits, or not in a signed int
LongNumberLines ==
    {
     <<"S", "1", "$", "4", "2", "9", "4", "9", "6", "7", "2", "9", "1">>,
     <<"S", "4", "2", "9", "4", "9", "6", "7", "2", "9", "7", "$", "5">>,
     <<"S", "1", "$", "2", "1", "4", "7", "4", "8", "3", "6", "4", "8">>,
     <<"R", "4", "2", "9", "4", "9", "6", "7", "2", "9", "6">>,
     <<"R", "4", "2", "9", "4", "9", "6", "7", "3", "0", "6">>,
     <<"R", "2", "1", "4", "7", "4", "8", "3", "6", "4", "8">>,
     <<"R", "1", "0", "0", "0", "0", "0", "0", "0", "0", "0", "0", "0", "0", "0", "0", "0", "0", "0", "0", "0", "1", "6", "1", "0", "6", "1", "2", "7", "4", "1">>,
     <<"T", "4", "2", "9", "4", "9", "6", "7", "3", "9", "6">>,
     <<"T", "4", "2", "9", "4", "9", "6", "7", "2", "9", "5">>,
     <<"T", "2", "1", "4", "7", "4", "8", "3", "6", "4", "8">>
    }

\* lines of more than 31 characters: 31 that make a command, then more
OverlongLines ==
    {
     <<"R", "0", "0", "0", "0", "0", "0", "0", "0", "0", "0", "0", "0", "0", "0", "0", "0", "0", "0", "0", "0", "0", "0", "0", "0", "0", "0", "0", "0", "6", "4", "9", "9">>,
     <<"T", "0", "0", "0", "0", "0", "0", "0", "0", "0", "0", "0", "0", "0", "0", "0", "0", "0", "0", "0", "0", "0", "0", "0", "0", "0", "0", "0", "2", "5", "0", "7">>,
     <<"X", "y", "y", "y", "y", "y", "y", "y", "y", "y", "y", "y", "y", "y", "y", "y", "y", "y", "y", "y", "y", "y", "y", "y", "y", "y", "y", "y", "y", "y", "y", "z", "z">>
    }
\* The decimal numeral of n, as the operator types it and as a reader of
\* the console expects it.
RECURSIVE Numeral(_)
Numeral(n) ==
    IF n < 10 THEN <<Digit[n + 1]>>
    ELSE Numeral(n \div 10) \o <<Digit[(n % 10) + 1]>>

Dec(n) == IF n < 0 THEN <<"-">> \o Numeral(-n) ELSE Numeral(n)

\* The lines S<a>$<v> and R<a>.
SetLine(a, v) == <<"S">> \o Dec(a) \o <<"$">> \o Dec(v)
ReadLine(a)   == <<"R">> \o Dec(a)

\* Addresses and values of the Set-then-Read scripts.
TestAddrs  == {0, 1, 4, 64}
TestValues == {-32768, -500, -1, 0, 1, 32767}

SingleLines == OtherLines \cup SetLines \cup ReadLines \cup TimerLines \cup LongNumberLines

Scripts ==
    {l \o <<CR>> : l \in SingleLines}
    \cup {<<"R", "1", LF>>, <<"T", "2", "5", "0", LF>>, <<"R", "1", CR, LF>>}
    \cup {SetLine(a, v) \o <<CR>> \o ReadLine(a) \o <<CR>> :
              a \in TestAddrs, v \in TestValues}
    \cup {SetLine(a, -500) \o <<CR>> \o ReadLine(b) \o <<CR>> :
              a \in TestAddrs, b \in TestAddrs}
    \cup {l \o <<CR>> : l \in OverlongLines}
    \cup {SetLine(1, -1) \o <<CR>> \o SetLine(b, 7) \o <<CR>> \o ReadLine(1) \o <<CR>> :
              b \in {1, 4}}

----------------------------------------------------------------------------
(* Spec: the main loop at handler granularity.  The operator types the     *)
(* next character once the previous one has been consumed and the ring     *)
(* holds at most MaxBacklog bytes.                                         *)

\* The status values with which uart_isr is entered.
IsrStatus == {{TRDY}, {RRDY}, {RRDY, TRDY}}

\* uart_isr, entered because an enabled status bit is set.
Isr ==
    \E status \in IsrStatus :
        /\ IrqPending(status)
        /\ RRDY \in status =>
               typed # <<>> /\ uart_rx_flag = 0 /\ Pending <= MaxBacklog
        /\ uart_isr(status, IF RRDY \in status THEN Head(typed) ELSE NUL)
        /\ typed' = IF RRDY \in status THEN Tail(typed) ELSE typed
        /\ UNCHANGED <<cmdVars, fgVars, wire, lines, bus, histVars, h, auxVars>>

\* One iteration of the main loop, lines 665-668.
MainLoop == \E ubA \in UBChoice, ubV \in UBChoice : process_console_input(ubA, ubV)

Init ==
    \E N \in {MaxRing, TX_BUFFER_SIZE}, script \in Scripts :
        Started(N, Reg64Reset, script) /\ timer_tick_count = 0

Next == Isr \/ MainLoop

Spec == Init /\ [][Next]_vars
----------------------------------------------------------------------------
(* Claims about the transmit ring, checked under SpecRing.                 *)

\* The byte of the running uart_putchar once line 202 has published it.
InFlight == IF pc \in {"L205", "L207"} THEN <<arg_c>> ELSE <<>>

\* C1: under every interleaving of uart_putchar's statements with uart_isr,
\* the bytes written to TXDATA followed by the bytes waiting in the ring are
\* exactly the bytes uart_putchar accepted (those it returned 1 for, plus the
\* one it has published and is about to return 1 for), in order: nothing is
\* lost, duplicated, reordered or read from a slot never written; and
\* tx_head = tx_tail exactly when all of them have been transmitted.
C1_FifoExact ==
    /\ wire \o RingContent = accepted \o InFlight
    /\ \A i \in 1..Len(wire) : wire[i] # NUL
    /\ (tx_head = tx_tail) <=> (wire = accepted \o InFlight)

\* C1 witness: the ring has wrapped around and uart_isr has transmitted the
\* byte of a uart_putchar call that has not returned yet.
C1_Witness ==
    /\ pc = "L207"
    /\ tx_head = tx_tail
    /\ Len(wire) > tx_size
    /\ Len(wire) = Len(accepted) + 1

\* The state part of C2.
C2_State ==
    /\ tx_head \in 0..(tx_size - 1)
    /\ tx_tail \in 0..(tx_size - 1)
    /\ Len(accepted) + Len(InFlight) - Len(wire) = Pending
    /\ Pending <= tx_size - 1
    /\ ret = 0 => full_at_check /\ tx_head = head0 /\ tx_buffer = buf0
    /\ ret = 1 => ~full_at_check
    /\ streak >= 0 => streak = Pending
    /\ (ret = 0 /\ streak > 0) => streak = tx_size - 1

\* The step part of C2: no statement of the foreground moves tx_tail.
C2_Step == (pc' # pc) => (tx_tail' = tx_tail)

\* C2: uart_putchar returns 0 exactly when the ring is full at its check
\* (line 194), and then tx_head and the buffer are as at its entry and it has
\* not moved tx_tail; tx_head and tx_tail stay in [0, N-1]; at most N-1 bytes
\* wait in the ring; starting from an empty ring with no drain in between,
\* exactly N-1 enqueues succeed before the first one fails.
C2_FullRejects == []C2_State /\ [][C2_Step]_vars

\* C2 witness: an enqueue has just failed after exactly N-1 enqueues had
\* succeeded on an empty ring with no drain in between.
C2_Witness ==
    /\ ret = 0
    /\ streak = tx_size - 1
    /\ pc = "main"

\* C10: every '\n' on the wire is immediately preceded by a '\r'.
C10_CrBeforeLf ==
    \A i \in 1..Len(wire) : wire[i] = LF => (i > 1 /\ wire[i - 1] = CR)

----------------------------------------------------------------------------
(* Claims about the command console, checked under Spec.  They speak of    *)
(* the last line submitted: h.term says that the last character consumed   *)
(* was a terminator, h.line is the line, h.text what the handler passed to *)
(* the output functions (the echoed newline first), h.access its bridge    *)
(* accesses.                                                               *)

\* The response: what follows the echoed newline.
Answer == SubSeq(h.text, 2, Len(h.text))

\* The number of '\n' in s.
Newlines(s) == Cardinality({i \in 1..Len(s) : s[i] = LF})

AllDigits(s) == s # <<>> /\ \A i \in 1..Len(s) : isdigit(s[i])

\* s without its leading zeros.
NoLeadingZeros(s) ==
    IF \A i \in 1..Len(s) : s[i] = "0" THEN <<>>
    ELSE SubSeq(s, CHOOSE i \in 1..Len(s) : s[i] # "0" /\ \A j \in 1..(i - 1) : s[j] = "0",
                Len(s))

\* The value of a digit string of at most five significant digits.
RECURSIVE SmallValue(_)
SmallValue(s) ==
    IF s = <<>> THEN 0
    ELSE SmallValue(SubSeq(s, 1, Len(s) - 1)) * 10 + DigitVal(s[Len(s)])

\* Whether the number that the digit string s denotes lies in lo..hi
\* (0 <= lo <= hi <= 99999), however long s is.
DenotesIn(s, lo, hi) ==
    /\ Len(NoLeadingZeros(s)) <= 5
    /\ SmallValue(NoLeadingZeros(s)) \in lo..hi

\* The first character after the blanks of s is a digit.
LeadingDigit(s) ==
    SkipBlanks(s, 1) <= Len(s) /\ isdigit(s[SkipBlanks(s, 1)])

IsSetLine(l)   == l # <<>> /\ l[1] \in {"S", "s"}
IsReadLine(l)  == l # <<>> /\ l[1] \in {"R", "r"}
IsTimerLine(l) == l # <<>> /\ l[1] \in {"T", "t"}

\* The argument of a line: what follows the command letter.
Arg(l) == SubSeq(l, 2, Len(l))

HasDollar(s) == \E i \in 1..Len(s) : s[i] = "$"

\* What precedes and what follows the first '$' of s.
BeforeDollar(s) ==
    SubSeq(s, 1, (CHOOSE i \in 1..Len(s) : s[i] = "$" /\ \A j \in 1..(i - 1) : s[j] # "$") - 1)
AfterDollar(s) == SubSeq(s, Len(BeforeDollar(s)) + 2, Len(s))

Writes == {i \in 1..Len(h.access) : h.access[i].op = "write"}

\* The handler touched neither the bridge nor the timer interval.
Untouched == h.access = <<>> /\ regs = h.pre_regs /\ delay_value = h.pre_delay

\* C3: for a in [0,64] and v in [-32768,32767], the line S<a>$<v> followed,
\* with no Set to a in between, by the line R<a> is answered
\* "Read reg[<a>] = <v>": the read goes to the bridge offset the write went
\* to, the word written is v sign-extended and the low half of the word read,
\* taken as signed, is v.
SetsTo(a, l) ==
    /\ IsSetLine(l)
    /\ Len(l) >= Len(Dec(a)) + 2
    /\ SubSeq(l, 2, Len(Dec(a)) + 2) = Dec(a) \o <<"$">>

C3_SetThenRead ==
    h.term =>
      \A a \in 0..64, v \in TestValues, j \in 1..(Len(lines) - 1) :
          ( /\ lines[Len(lines)] = ReadLine(a)
            /\ lines[j] = SetLine(a, v)
            /\ \A k \in (j + 1)..(Len(lines) - 1) : ~SetsTo(a, lines[k]) )
          => /\ Answer = MSG_READ \o Dec(a) \o MSG_EQ \o Dec(v) \o <<LF>>
             /\ Len(h.access) = 1
             /\ h.access[1].op = "read"
             /\ Low16Signed(h.access[1].data) = v
             /\ \E i \in 1..(Len(bus) - 1) :
                    bus[i] = [op |-> "write", offset |-> h.access[1].offset,
                              data |-> h.access[1].data]

\* A negative extreme has been written to the last register and read back.
C3_Witness ==
    /\ h.term
    /\ lines = <<SetLine(64, -32768), ReadLine(64)>>
    /\ Answer = MSG_READ \o <<"6", "4">> \o MSG_EQ
                  \o <<"-", "3", "2", "7", "6", "8", LF>>
    /\ Len(bus) = 2

FreeAtEntry == tx_size - 1 - h.pre_pending

LineBuffer(l) == [i \in 0..(CMD_BUFFER_SIZE - 1) |-> IF i < Len(l) THEN l[i + 1] ELSE NUL]

\* The line l with a capital command letter.
Capital(l) ==
    [l EXCEPT ![1] = CASE @ = "s" -> "S" [] @ = "r" -> "R" [] @ = "t" -> "T"
                       [] OTHER -> @]

\* The last line was handled as the dispatcher handles the line l in the
\* state the handler was entered in.
HandledLike(l) ==
    \E ubA \in UBChoice, ubV \in UBChoice :
        LET d == Command(LineBuffer(l), Len(l), h.pre_regs, h.pre_delay, ubA, ubV)
        IN  /\ Answer = Emit(TxNow, d.out).text
            /\ h.access = d.access
            /\ regs = d.regs
            /\ delay_value = d.delay

HasAddress(l) == IsReadLine(l) \/ (IsSetLine(l) /\ HasDollar(Arg(l)))
Address(l) == IF IsReadLine(l) THEN Arg(l) ELSE BeforeDollar(Arg(l))

\* C6: on an S or R line an address that parses to a number outside [0,64]
\* gets the address-range error and an address with no leading digit the
\* invalid-address error, neither reads or writes a register, and every
\* bridge access of the dispatcher is to a register in [0,64].
C6_AddressChecked ==
    h.term =>
      /\ HasAddress(h.line) =>
           /\ ~LeadingDigit(Address(h.line))
                  => Answer = MSG_INVALID_ADDR /\ Untouched
           /\ (LeadingDigit(Address(h.line)) /\ h.parsed[1].value \notin 0..64)
                  => Answer = MSG_ADDR_RANGE /\ Untouched
      /\ \A i \in 1..Len(h.access) :
             /\ h.access[i].offset % 4 = 0
             /\ h.access[i].offset \div 4 \in 0..64

\* S70$1 has been refused.
C6_Witness ==
    /\ h.term
    /\ h.line = <<"S", "7", "0", "$", "1">>
    /\ Answer = MSG_ADDR_RANGE
    /\ bus = <<>>

\* C7: T<n> with n in [100,5000] stores n and is answered
\* "Timer interval set to: <n> ms"; with n outside [100,5000] it gets the
\* range error, with a non-numeric argument the invalid-value error, and
\* both leave the interval as it was; the interval is in [100,5000] in every
\* reachable state.
C7_TimerInterval ==
    /\ delay_value \in 100..5000
    /\ (h.term /\ IsTimerLine(h.line)) =>
         /\ (AllDigits(Arg(h.line)) /\ DenotesIn(Arg(h.line), 100, 5000))
                => /\ delay_value = SmallValue(NoLeadingZeros(Arg(h.line)))
                   /\ Answer = MSG_TIMER \o Dec(delay_value) \o MSG_MS
         /\ (AllDigits(Arg(h.line)) /\ ~DenotesIn(Arg(h.line), 100, 5000))
                => Answer = MSG_VALUE_RANGE /\ Untouched
         /\ ~LeadingDigit(Arg(h.line))
                => Answer = MSG_INVALID_INT /\ Untouched

\* C8: a digit string whose value lies outside the documented range, however
\* long it is, is refused: as an S value with the invalid-value error, as an
\* S or R address with the address-range error, as a T interval with the
\* range error; the line writes no register and leaves the interval alone.
C8_NoSilentWrap ==
    h.term =>
      /\ (HasAddress(h.line) /\ AllDigits(Address(h.line))
          /\ ~DenotesIn(Address(h.line), 0, 64))
             => Answer = MSG_ADDR_RANGE /\ Untouched
      /\ (IsSetLine(h.line) /\ HasDollar(Arg(h.line))
          /\ AllDigits(Address(h.line)) /\ DenotesIn(Address(h.line), 0, 64)
          /\ AllDigits(AfterDollar(Arg(h.line)))
          /\ ~DenotesIn(AfterDollar(Arg(h.line)), 0, 32767))
             => Answer = MSG_INVALID_VALUE /\ Untouched
      /\ (IsTimerLine(h.line) /\ AllDigits(Arg(h.line))
          /\ ~DenotesIn(Arg(h.line), 100, 5000))
             => Answer = MSG_VALUE_RANGE /\ Untouched

\* An optional sign, then digits and nothing else.
SignedNumeral(s) ==
    s # <<>> /\ AllDigits(IF s[1] \in {"+", "-"} THEN Tail(s) ELSE s)

\* C9: a Set line is accepted only if it has exactly one '$', a pure
\* unsigned decimal address before it and a pure signed decimal value after
\* it; without a '$' it gets the format error; a line that is not of that
\* form is refused with an error and writes no register.
C9_StrictSet ==
    (h.term /\ IsSetLine(h.line)) =>
      /\ ~HasDollar(Arg(h.line)) => Answer = MSG_FORMAT /\ Untouched
      /\ Writes # {} =>
           /\ HasDollar(Arg(h.line))
           /\ AllDigits(BeforeDollar(Arg(h.line)))
           /\ SignedNumeral(AfterDollar(Arg(h.line)))

\* ---------------------------------------------------------------------------
\* The length of the command line
\* ---------------------------------------------------------------------------

\* The first n elements of s.
Prefix(s, n) == SubSeq(s, 1, IF Len(s) < n THEN Len(s) ELSE n)

\* This step consumes the character in the latch.
Consumes == uart_rx_flag # 0 /\ uart_rx_flag' = 0

\* This step leaves the transmit ring as it is: nothing is echoed.
NoEcho == tx_buffer' = tx_buffer /\ tx_head' = tx_head /\ h'.emitted = <<>>

\* What a step that consumes a character other than '\r' and '\n' does with
\* it: with fewer than 31 characters buffered it stores and echoes it, with 31
\* buffered it neither stores nor echoes it.
C11_Step ==
    (Consumes /\ ~IsTerminator(uart_rx_char)) =>
        IF buffer_idx < CMD_BUFFER_SIZE - 1
          THEN /\ cmd_buffer' = [cmd_buffer EXCEPT ![buffer_idx] = uart_rx_char]
               /\ buffer_idx' = buffer_idx + 1
               /\ h'.emitted = <<uart_rx_char>>
          ELSE /\ cmd_buffer' = cmd_buffer
               /\ buffer_idx' = buffer_idx
               /\ NoEcho

\* The index is inside the buffer with room for the NUL, and the line handled
\* at a terminator is the first 31 characters keyed since the last one (an
\* empty line is not handed to the dispatcher).
C11_State ==
    /\ buffer_idx \in 0..(CMD_BUFFER_SIZE - 1)
    /\ h.term => /\ h.line = Prefix(h.keyed, CMD_BUFFER_SIZE - 1)
                 /\ h.keyed # <<>> => HandledLike(Prefix(h.keyed, CMD_BUFFER_SIZE - 1))

\* C11: 0 <= buffer_idx <= 31 in every reachable state; once 31 characters
\* are buffered, further characters other than a terminator are consumed from
\* the latch but neither stored nor echoed, and the command handled at the
\* terminator is the one denoted by the first 31 characters of the line.
C11_LineBounded == [] C11_State /\ [][C11_Step]_vars

\* A line of 33 characters was keyed and its first 31 read register 64.
C11_Witness ==
    /\ h.term
    /\ Len(h.keyed) > CMD_BUFFER_SIZE - 1
    /\ h.line[1] = "R"
    /\ Len(h.access) = 1
    /\ h.access[1].op = "read"
    /\ h.access[1].offset = 4 * 64

----------------------------------------------------------------------------
(* SpecLatch: process_console_input statement by statement up to the       *)
(* point where it has taken the character (lines 442-445), preempted       *)
(* between any two statements by uart_isr and jtag_uart_isr, which both    *)
(* store into the same latch.                                              *)

MaxArrivals == 3
LatchChars  == {"R", CR}

\* lines 136-137 and 174-175: uart_rx_char = c; uart_rx_flag = 1, as the
\* history sees it: the character, whether the latch was still valid, and
\* the handler that stored it.
Stored(c, isr) ==
    [obs EXCEPT !.stored = Append(@, [c |-> c, over |-> uart_rx_flag # 0, by |-> isr])]

\* uart_isr preempts the foreground; with RRDY in the status a character
\* has arrived.
UartInterrupt ==
    \E status \in RingStatus, c \in LatchChars :
        /\ IrqPending(status)
        /\ RRDY \in status => Len(obs.stored) < MaxArrivals
        /\ uart_isr(status, c)
        /\ obs' = IF RRDY \in status THEN Stored(c, "uart_isr") ELSE obs
        /\ UNCHANGED <<cmdVars, fgVars, wire, typed, lines, bus, histVars, h,
                       timer_tick_count, loc>>

\* lines 163-180: jtag_uart_isr, with the data register it reads (bit 15:
\* valid, bits 7..0: the character).
jtag_uart_isr(valid, c) ==
    /\ uart_rx_char' = IF valid THEN c ELSE uart_rx_char
    /\ uart_rx_flag' = IF valid THEN 1 ELSE uart_rx_flag
    /\ UNCHANGED <<tx_size, ringVars, txdata, errVars>>

\* jtag_uart_isr preempts the foreground.
JtagInterrupt ==
    \E valid \in BOOLEAN, c \in LatchChars :
        /\ valid => Len(obs.stored) < MaxArrivals
        /\ jtag_uart_isr(valid, c)
        /\ obs' = IF valid THEN Stored(c, "jtag_uart_isr") ELSE obs
        /\ UNCHANGED <<cmdVars, fgVars, wire, typed, lines, bus, histVars, h,
                       timer_tick_count, loc>>

\* A faulty LatchValid: the character is taken whether or not one is there.
LatchValid_Always(flag) == flag \in {0, 1}

\* line 442: if (uart_rx_flag)
LatchValid(flag) == flag # 0

\* What a statement of lines 442-445 leaves alone besides the latch and the
\* position.
LatchFrame ==
    UNCHANGED <<tx_size, ringVars, txdata, errVars, cmdVars, ret_to, arg_c, next_head,
                control_local, ret, puts_str, puts_c, wire, typed, lines, bus, histVars, h,
                timer_tick_count>>

L442 ==
    /\ pc = "main"
    /\ pc' = IF LatchValid(uart_rx_flag) THEN "L444" ELSE "main"
    /\ UNCHANGED <<latchVars, loc, obs>>
    /\ LatchFrame

\* line 444: c = uart_rx_char; the arrival taken is the last one stored.
L444 ==
    /\ pc = "L444"
    /\ loc' = [loc EXCEPT !.c = uart_rx_char]
    /\ obs' = [obs EXCEPT !.consumed = Append(@, Len(obs.stored))]
    /\ pc' = "L445"
    /\ UNCHANGED latchVars
    /\ LatchFrame

\* line 445: uart_rx_flag = 0
L445 ==
    /\ pc = "L445"
    /\ uart_rx_flag' = 0
    /\ pc' = "L447"
    /\ UNCHANGED <<uart_rx_char, loc, obs>>
    /\ LatchFrame

\* lines 447-575: the rest of process_console_input, on the copy c.
L447 ==
    /\ pc = "L447"
    /\ \E ubA \in UBChoice, ubV \in UBChoice :
           IF IsTerminator(loc.c) THEN Terminator(ubA, ubV) ELSE Collect(loc.c)
    /\ pc' = "main"
    /\ UNCHANGED <<tx_size, tx_tail, txdata, latchVars, errVars, ret_to, arg_c, next_head,
                   control_local, ret, puts_str, puts_c, wire, typed, histVars, auxVars>>

InitLatch == Started(MaxRing, Reg64Reset, <<>>) /\ timer_tick_count = 0

NextLatch ==
    \/ UartInterrupt
    \/ JtagInterrupt
    \/ L442
    \/ L444
    \/ L445
    \/ L447

SpecLatch == InitLatch /\ [][NextLatch]_vars

\* The arrivals stored so far, by position.
Arrivals == 1..Len(obs.stored)

\* C12: the latch holds at most one character; an arrival stored while the
\* one before it has not been drained (the flag still set, whether or not
\* the foreground has copied the character) replaces it: the one before is
\* not consumed, and the new one stays in the latch, valid, until the
\* foreground consumes it.
C12_SecondReplacesFirst ==
    /\ uart_rx_flag \in {0, 1}
    /\ \A k \in Arrivals :
           obs.stored[k].over =>
               \A i \in 1..Len(obs.consumed) : obs.consumed[i] # k - 1
    /\ (Arrivals # {} /\ \A i \in 1..Len(obs.consumed) : obs.consumed[i] # Len(obs.stored))
           => (uart_rx_flag = 1 /\ uart_rx_char = obs.stored[Len(obs.stored)].c)

\* C19: the foreground takes the arrivals in the order they were stored, each
\* at most once, and takes one only if an arrival was stored since it took
\* the one before; what it hands to the line assembler is that arrival's
\* character.
C19_AtMostOnce ==
    /\ \A i \in 1..Len(obs.consumed) :
           /\ obs.consumed[i] \in Arrivals
           /\ i > 1 => obs.consumed[i - 1] < obs.consumed[i]
    /\ pc \in {"L445", "L447"} =>
           /\ obs.consumed # <<>>
           /\ loc.c = obs.stored[obs.consumed[Len(obs.consumed)]].c

\* An arrival was stored between the copy and the clearing of the flag, and
\* another one was consumed after it.
C19_Witness ==
    /\ Len(obs.consumed) = 2
    /\ obs.consumed[1] = 1
    /\ obs.consumed[2] = 3
    /\ obs.stored[2].over
    /\ pc = "main"

----------------------------------------------------------------------------
(* The enables of the control register, checked under SpecRing.            *)

\* uart_putchar is between its entry and its return.
InPutchar == pc \in {"L191", "L194", "L201", "L202", "L205", "L207"}

\* C20: the receive-ready enable is set in every state after
\* initialisation: neither the read-modify-write of uart_putchar nor the one
\* of uart_isr clears it, whichever way the second preempts the first.
C20_RxEnabled == RRDY \in control

\* uart_isr has emptied the ring and written the control register between
\* the read of line 205 and the write of line 207.
C20_Witness ==
    /\ pc = "L207"
    /\ control_local # control
    /\ tx_head = tx_tail
    /\ Len(wire) > 1

\* C14: once uart_putchar has returned, the transmit-ready interrupt is not
\* armed while the ring is empty.
C14_NoArmedEmpty == ~InPutchar => ~(TRDY \in control /\ tx_head = tx_tail)

----------------------------------------------------------------------------
(* SpecLive: uart_putchar and uart_flush (lines 230-237) preempted by      *)
(* uart_isr, where the foreground keeps running and an armed               *)
(* transmit-ready interrupt is served.                                     *)

MaxLive == 3

\* The foreground calls uart_putchar('a').
LivePutchar ==
    /\ pc = "main"
    /\ offered < MaxLive
    /\ PutcharEnter("a", "main")
    /\ UNCHANGED <<ringVars, next_head, control_local, puts_str, puts_c>>
    /\ FgFrame

\* The foreground calls uart_flush().
ClientFlush ==
    /\ pc = "main"
    /\ pc' = "flush"
    /\ obs' = [obs EXCEPT !.flush_pending = Pending, !.flush_done = FALSE]
    /\ UNCHANGED <<tx_size, ringVars, txdata, latchVars, errVars, cmdVars, ret_to, arg_c,
                   next_head, control_local, ret, puts_str, puts_c, wire, typed, lines, bus,
                   histVars, h, timer_tick_count, loc>>

\* line 233: while (tx_head != tx_tail) { }; the iterations that find the
\* ring non-empty change nothing, the one that finds it empty returns.
FlushLoop ==
    /\ pc = "flush"
    /\ tx_head = tx_tail
    /\ pc' = "main"
    /\ obs' = [obs EXCEPT !.flush_done = TRUE]
    /\ UNCHANGED <<tx_size, ringVars, txdata, latchVars, errVars, cmdVars, ret_to, arg_c,
                   next_head, control_local, ret, puts_str, puts_c, wire, typed, lines, bus,
                   histVars, h, timer_tick_count, loc>>

NextLive ==
    \/ LivePutchar
    \/ ClientFlush
    \/ L191
    \/ L194
    \/ L201
    \/ L202
    \/ L205
    \/ L207
    \/ FlushLoop
    \/ Interrupt

\* The statements of the functions the foreground is in.
Foreground == L191 \/ L194 \/ L201 \/ L202 \/ L205 \/ L207 \/ FlushLoop

\* uart_isr entered with the transmitter ready, sending a byte.
TxServed == Interrupt /\ tx_tail' # tx_tail

SpecLive == InitRing /\ [][NextLive]_vars /\ WF_vars(Foreground) /\ WF_vars(TxServed)

\* The state part of C15.
C15_Armed == (tx_head # tx_tail /\ ~InPutchar) => TRDY \in control

\* The step part of C15: uart_flush returns with an empty ring.
C15_FlushReturn == (pc = "flush" /\ pc' = "main") => tx_head' = tx_tail'

\* C15: whenever the ring is non-empty and uart_putchar is not in progress
\* the transmit-ready interrupt is armed; if the foreground keeps running and
\* the armed interrupt is served, every byte uart_putchar accepted is written
\* to TXDATA and every uart_flush returns, with tx_head = tx_tail.
C15_Drained ==
    /\ []C15_Armed
    /\ [][C15_FlushReturn]_vars
    /\ \A n \in 1..MaxLive : (Len(accepted) >= n) ~> (Len(wire) >= n)
    /\ (pc = "flush") ~> (pc = "main")

\* uart_flush was called with two bytes waiting and has returned, everything
\* accepted being on the wire.
C15_Witness ==
    /\ obs.flush_done
    /\ obs.flush_pending = tx_size - 1
    /\ wire = accepted
    /\ pc = "main"

----------------------------------------------------------------------------
(* The timer: timer_isr, lines 90-97, and the test of the main loop,       *)
(* lines 671-693.                                                          *)

MaxTicks == 2

\* timer_isr preempts the foreground: timer_tick_count++
TimerInterrupt ==
    /\ obs.ticks < MaxTicks
    /\ timer_tick_count' = timer_tick_count + 1
    /\ obs' = [obs EXCEPT !.ticks = @ + 1]
    /\ UNCHANGED <<tx_size, ringVars, txdata, latchVars, errVars, cmdVars, fgVars, wire,
                   typed, lines, bus, histVars, h, loc>>

\* lines 671-693: if (timer_tick_count >= delay_value) { timer_tick_count =
\* 0; ... }; the body toggles the PIO bit and, every tenth time, prints the
\* three error counters on the JTAG UART: it reads them and writes none.
TimerCheck ==
    /\ pc = "main"
    /\ timer_tick_count >= delay_value
    /\ timer_tick_count' = 0
    /\ UNCHANGED <<tx_size, ringVars, txdata, latchVars, errVars, cmdVars, fgVars, wire,
                   typed, lines, bus, histVars, h, loc, obs>>

----------------------------------------------------------------------------
(* SpecErr: the main loop preempted by uart_isr entered with any status:   *)
(* the error flags come with a received character or are still set when    *)
(* the transmitter interrupts.  The interval has or has not elapsed.       *)

MaxIsr == 2

ErrStatus == SUBSET {PE, FE, ROE, RRDY, TRDY}

ErrInterrupt ==
    \E status \in ErrStatus, c \in LatchChars :
        /\ IrqPending(status)
        /\ obs.isr_n < MaxIsr
        /\ uart_isr(status, c)
        /\ obs' = [obs EXCEPT !.isr_n = @ + 1, !.isr_status = status]
        /\ UNCHANGED <<cmdVars, fgVars, wire, typed, lines, bus, histVars, h,
                       timer_tick_count, loc>>

InitErr ==
    /\ Started(MaxRing, Reg64Reset, <<>>)
    /\ timer_tick_count \in {0, delay_value}

NextErr ==
    \/ ErrInterrupt
    \/ MainLoop
    \/ TimerCheck

SpecErr == InitErr /\ [][NextErr]_vars

\* 1 if the last uart_isr was entered with flag set, else 0.
Flagged(flag) == IF flag \in obs'.isr_status THEN 1 ELSE 0

C17_Step ==
    /\ uart_parity_errors' >= uart_parity_errors
    /\ uart_frame_errors' >= uart_frame_errors
    /\ uart_overrun_errors' >= uart_overrun_errors
    /\ obs'.isr_n = obs.isr_n => UNCHANGED errVars
    /\ obs'.isr_n # obs.isr_n =>
           /\ uart_parity_errors' = uart_parity_errors + Flagged(PE)
           /\ uart_frame_errors' = uart_frame_errors + Flagged(FE)
           /\ uart_overrun_errors' = uart_overrun_errors + Flagged(ROE)

\* C17: no step makes an error counter smaller, no step but uart_isr changes
\* one, and one invocation of uart_isr adds to each counter 1 if its own flag
\* is set in the status and 0 if not, whatever the other two flags are.
C17_Counters == [][C17_Step]_vars

\* After an invocation with the parity flag alone, one with all three flags
\* set has incremented all three counters.
C17_Witness ==
    /\ {PE, FE, ROE} \subseteq obs.isr_status
    /\ uart_parity_errors = 2
    /\ uart_frame_errors = 1
    /\ uart_overrun_errors = 1

----------------------------------------------------------------------------
(* SpecBlock: uart_putchar_blocking, lines 213-227, statement by           *)
(* statement around uart_putchar, preempted by uart_isr and timer_isr,     *)
(* between calls of it the timer test of the main loop.  The foreground    *)
(* keeps running and the timer keeps interrupting.                         *)

MaxCalls == 3
Timeouts == {0, 1, 2}

\* A faulty TimedOut: the loop gives up one tick early.
TimedOut_Early(now, start, timeout_ms) == now - start + 1 >= timeout_ms

\* line 220: (timer_tick_count - start_time) >= timeout_ms, in uint32_t; the
\* count does not pass 2^32 within MaxTicks ticks.
TimedOut(now, start, timeout_ms) == now - start >= timeout_ms

\* What a statement of uart_putchar_blocking leaves alone.
BlockingFrame ==
    UNCHANGED <<tx_size, ringVars, txdata, latchVars, errVars, cmdVars, next_head,
                control_local, puts_str, puts_c, wire, typed, lines, bus, h,
                timer_tick_count, accepted, offered, full_at_check, streak>>

\* The foreground calls uart_putchar_blocking('a', t); line 215:
\* start_time = timer_tick_count.  The timer has t ticks left within MaxTicks.
ClientBlocking ==
    /\ pc = "main"
    /\ obs.calls < MaxCalls
    /\ \E t \in Timeouts :
           /\ obs.ticks + t <= MaxTicks
           /\ loc' = [loc EXCEPT !.c = "a", !.timeout_ms = t, !.start_time = timer_tick_count]
    /\ obs' = [obs EXCEPT !.calls = @ + 1, !.acc0 = Len(accepted), !.last = -1,
                          !.elapsed = 0, !.result = -1]
    /\ pc' = "L217"
    /\ UNCHANGED <<ret_to, arg_c, ret, head0, buf0>>
    /\ BlockingFrame

\* line 217: the call uart_putchar(c) of the loop condition
L217 ==
    /\ pc = "L217"
    /\ arg_c' = loc.c
    /\ ret_to' = "L217r"
    /\ pc' = "L191"
    /\ ret' = -1
    /\ head0' = tx_head
    /\ buf0' = tx_buffer
    /\ UNCHANGED <<loc, obs>>
    /\ BlockingFrame

\* lines 217 and 226: while (!...), with uart_putchar's result; return 1
L217r ==
    /\ pc = "L217r"
    /\ obs' = [obs EXCEPT !.last = ret, !.result = IF ret # 0 THEN 1 ELSE @]
    /\ pc' = IF ret # 0 THEN "main" ELSE "L220"
    /\ UNCHANGED <<ret_to, arg_c, ret, head0, buf0, loc>>
    /\ BlockingFrame

\* lines 220-223: if (... >= timeout_ms) return 0
L220 ==
    /\ pc = "L220"
    /\ obs' = [obs EXCEPT !.elapsed = timer_tick_count - loc.start_time,
                          !.result = IF TimedOut(timer_tick_count, loc.start_time,
                                                 loc.timeout_ms) THEN 0 ELSE @]
    /\ pc' = IF TimedOut(timer_tick_count, loc.start_time, loc.timeout_ms)
               THEN "main" ELSE "L217"
    /\ UNCHANGED <<ret_to, arg_c, ret, head0, buf0, loc>>
    /\ BlockingFrame

InitBlock ==
    /\ Started(MaxRing, Reg64Reset, <<>>)
    /\ timer_tick_count \in {0, delay_value - 1}

NextBlock ==
    \/ ClientBlocking
    \/ L217
    \/ L191
    \/ L194
    \/ L201
    \/ L202
    \/ L205
    \/ L207
    \/ L217r
    \/ L220
    \/ TimerCheck
    \/ Interrupt
    \/ TimerInterrupt

\* The statements of uart_putchar_blocking and of the uart_putchar it calls.
BlockingStep == L217 \/ L191 \/ L194 \/ L201 \/ L202 \/ L205 \/ L207 \/ L217r \/ L220

SpecBlock ==
    InitBlock /\ [][NextBlock]_vars /\ WF_vars(BlockingStep) /\ WF_vars(TimerInterrupt)

\* The bytes uart_putchar has accepted since the entry of the last call.
Enqueued == SubSeq(accepted, obs.acc0 + 1, Len(accepted))

\* The state part of C13: what has been enqueued when the call has returned
\* r, and while it runs.
C13_State ==
    /\ Enqueued \in {<<>>, <<loc.c>>}
    /\ (pc = "main" /\ obs.calls > 0) =>
           /\ obs.result \in {0, 1}
           /\ obs.result = 1 <=> (obs.last = 1 /\ Enqueued = <<loc.c>>)
           /\ obs.result = 0 =>
                  /\ obs.last = 0
                  /\ Enqueued = <<>>
                  /\ obs.elapsed >= loc.timeout_ms
    /\ pc # "main" => obs.result = -1 /\ timer_tick_count >= loc.start_time

\* The step part of C13: the count does not decrease while the call runs.
C13_Step == pc # "main" => timer_tick_count' >= timer_tick_count

\* C13: uart_putchar_blocking(c, t) returns 1 exactly when an attempt
\* succeeded, c being enqueued once; it returns 0 only after a failed attempt
\* at which at least t ticks had elapsed since its entry, c not being
\* enqueued; the tick count does not decrease while it waits; and with the
\* timer interrupting, every call returns.
C13_TimedEnqueue ==
    /\ []C13_State
    /\ [][C13_Step]_vars
    /\ (pc # "main") ~> (pc = "main")

\* A call with a timeout of two ticks has failed on a full ring after two
\* calls had succeeded.
C13_Witness ==
    /\ pc = "main"
    /\ obs.calls = 3
    /\ obs.result = 0
    /\ loc.timeout_ms = 2
    /\ obs.elapsed >= 2
    /\ Len(accepted) = 2

----------------------------------------------------------------------------
(* SpecLoop: the main loop with process_console_input as one step, where  *)
(* characters arrive whatever the state of the ring and the loop keeps     *)
(* iterating; nothing is assumed of the interrupts, so the ring may stay   *)
(* full for ever.                                                          *)

LoopScripts ==
    {<<"R", "1", CR>>,
     <<"S", "1", "$", "5", CR, LF>>,
     <<"T", "2", "5", "0", CR, "x", CR>>,
     <<"R", "9", "9", LF, "S", CR>>}

\* uart_isr, entered because an enabled status bit is set; a character
\* arrives when the latch is free.
LoopIsr ==
    \E status \in IsrStatus :
        /\ IrqPending(status)
        /\ RRDY \in status => typed # <<>> /\ uart_rx_flag = 0
        /\ uart_isr(status, IF RRDY \in status THEN Head(typed) ELSE NUL)
        /\ typed' = IF RRDY \in status THEN Tail(typed) ELSE typed
        /\ UNCHANGED <<cmdVars, fgVars, wire, lines, bus, histVars, h, auxVars>>

InitLoop ==
    \E script \in LoopScripts :
        Started(MaxRing, Reg64Reset, script) /\ timer_tick_count = 0

NextLoop == LoopIsr \/ MainLoop

\* The main loop takes the character of the latch: the step of
\* process_console_input through lines 442-445.
LatchTaken == uart_rx_flag # 0 /\ uart_rx_flag' = 0

\* while (1) of line 665: a latch that stays valid is taken by an iteration.
SpecLoop == InitLoop /\ [][NextLoop]_vars /\ WF_uart_rx_flag(LatchTaken)

\* The state part of C18: with a character in the latch process_console_input
\* has a step, that is it runs to its end, whatever the line buffer and the
\* ring hold; a terminator leaves the index at 0; and one call makes no more
\* uart_putchar calls than the echoed "\r\n" and the longest response, the
\* unknown-command text with its '\r', need.
C18_State ==
    /\ uart_rx_flag # 0 => ENABLED <<MainLoop>>_vars
    /\ h.term => buffer_idx = 0
    /\ Len(h.emitted) <= Len(MSG_UNKNOWN) + 3

----------------------------------------------------------------------------
(* The order of the output, checked under Spec.                            *)

\* s is the first Len(s) elements of t.
IsPrefix(s, t) == Len(s) <= Len(t) /\ s = SubSeq(t, 1, Len(s))

\* s is the last Len(s) elements of t.
IsSuffix(s, t) == Len(s) <= Len(t) /\ s = SubSeq(t, Len(t) - Len(s) + 1, Len(t))

C16_Step ==
    /\ Consumes =>
           /\ RingContent' = RingContent \o h'.queued
           /\ IsPrefix(h'.queued, h'.emitted)
           /\ Len(h'.queued) = IF Len(h'.emitted) <= FreeAtEntry' THEN Len(h'.emitted)
                                                                   ELSE FreeAtEntry'
           /\ h'.term => lines' = Append(lines, h'.line) /\ buffer_idx' = 0
           /\ ~h'.term => lines' = lines
    /\ ~Consumes => IsSuffix(RingContent', RingContent)

====
